---- MODULE Spec2Model ----
\* A model of the zaphttp request-logging middleware: handler.handleRequest,
\* handler.logRequest, the statusRecorder response-writer wrapper and the
\* logger carried in the request context.
EXTENDS Integers, Sequences, FiniteSets, TLC

\* ------------------------------------------------------------------ bounds

\* Largest number of calls (Header / WriteHeader / Write / log) the downstream
\* handler makes before it returns or unwinds.
MaxOps == 3

\* ------------------------------------------------------------- value domains

\* The requests served by one middleware instance.
Reqs == {"r1"}

\* zapcore levels used by the middleware, and their zapcore order.
Levels == {"debug", "info", "warn", "error"}

LevelRank(level) ==
    CASE level = "debug" -> 0 - 1
      [] level = "info"  -> 0
      [] level = "warn"  -> 1
      [] level = "error" -> 2
      [] OTHER           -> 99

\* Minimum enabled levels of the base loggers tried; "nop" enables nothing
\* (zap.L() before ReplaceGlobals).
LoggerLevels == {"debug", "info", "warn", "nop"}

\* http.StatusOK
StatusOK == 200

\* Status codes the handler sends in the general specification.
Codes == {StatusOK, 404, 500}

\* Every status code of the status-classification table.
AllCodes == 100..599

\* Values of the Content-Type response header; "" is "not set".
ContentTypes == {"", "application/json", "text/plain"}

\* Body chunks the handler writes.
Chunks == {"a"}

\* Values the handler panics with.
PanicValues == {"err", "nil"}

\* Span contexts carried by the request context.
Spans ==
    { [traceID |-> 0, spanID |-> 0, sampled |-> FALSE],
      [traceID |-> 7, spanID |-> 0, sampled |-> TRUE],
      [traceID |-> 7, spanID |-> 3, sampled |-> TRUE] }

\* A validity test that looks at the trace ID alone.
IsValidTraceOnly(span) == span.traceID # 0

\* trace.SpanContext.IsValid: a non-zero trace ID and a non-zero span ID.
IsValid(span) == span.traceID # 0 /\ span.spanID # 0

\* --------------------------------------------------------------- the state

VARIABLES
    cfg,        \* handlerOptions of the middleware instance
    req,        \* req[r]: the incoming request (its span context)
    pc,         \* pc[r]: "idle", "handling" (inside next.ServeHTTP), "done"
    l,          \* l[r]: the per-request logger built by handleRequest
    ctx,        \* ctx[r]: the loggers stored in the request context
    sr,         \* sr[r]: the statusRecorder fields
    completed,  \* completed[r]: the local flag of handleRequest
    w,          \* w[r]: the underlying http.ResponseWriter
    bare,       \* bare[r]: the writer the same handler would drive unwrapped
    log,        \* the lines written to the logger's core, in order
    calls,      \* calls[r]: collaborator invocations made by the middleware
    exit,       \* exit[r]: how the downstream handler ended
    outcome,    \* outcome[r]: how the wrapped handler's ServeHTTP ended
    ops,        \* ops[r]: handler steps taken so far
    global,     \* the process-wide logger, zap.L()
    opts,       \* the options NewHandler was called with
    got,        \* the FromContext calls made so far and what they returned
    inner       \* a second middleware instance wrapped by the first one

\* The state outside the handling of one request by one middleware instance.
extra == <<global, opts, got, inner>>

vars == <<cfg, req, pc, l, ctx, sr, completed, w, bare, log, calls, exit,
          outcome, ops, global, opts, got, inner>>

\* ------------------------------------------------------------------ loggers

\* zap.Logger.Named
Named(parent, name) == [parent EXCEPT !.name = name]

\* zap.Logger.With
With(parent, fields) == [parent EXCEPT !.fields = parent.fields \o fields]

\* zap.Logger.Check: a checked entry exists iff the core enables the level.
Check(lg, level) ==
    lg.level # "nop" /\ LevelRank(level) >= LevelRank(lg.level)

NoLogger == [level |-> "nop", name |-> "none", fields |-> <<>>]

DefaultPerRequestLoggerFunc(parent) == Named(parent, "request")

\* A caller's PerRequestLoggerFunc: parent.With(zap.String("custom", "field")).
CustomPerRequestLoggerFunc(parent) ==
    With(parent, << [key |-> "custom", value |-> "field"] >>)

\* A handler that always builds the default per-request logger.
perRequestLoggerFnDefaultOnly(fn, parent) == Named(parent, "request")

\* h.options.perRequestLoggerFn(h.options.logger, req)
perRequestLoggerFn(fn, parent) ==
    IF fn = "default" THEN DefaultPerRequestLoggerFunc(parent)
    ELSE CustomPerRequestLoggerFunc(parent)

\* The verdicts a filter may return for one emission.
FilterVerdicts(fn) == IF fn = "default" THEN {TRUE} ELSE BOOLEAN

\* What the collaborators of one logRequest call do: the filter returns
\* TRUE or FALSE, or the filter panics, or the request formatter panics.
CallOutcomes(options) ==
    {IF v THEN "accept" ELSE "reject" : v \in FilterVerdicts(options.perRequestFilterFn)}
      \cup (IF options.perRequestFilterFn = "faulty" THEN {"filter panics"} ELSE {})
      \cup (IF options.requestFormatter = "faulty" THEN {"formatter panics"} ELSE {})

\* elasticCommonSchemaFormatter.GetTraceFields
GetTraceFields(span) ==
    << [key |-> "trace", id |-> span.traceID, sampled |-> span.sampled],
       [key |-> "span", id |-> span.spanID] >>

\* gcloudFormatter.GetTraceFields
gcloudGetTraceFields(span) ==
    << [key |-> "trace", value |-> <<"projects", "p", "traces", span.traceID>>],
       [key |-> "spanId", id |-> span.spanID],
       [key |-> "traceSampled", sampled |-> span.sampled] >>

\* h.options.traceFormatter.GetTraceFields(req, currentSpan)
traceFields(f, span) ==
    CASE f = "gcloud" -> gcloudGetTraceFields(span)
      [] f = "noop"   -> <<>>
      [] OTHER        -> GetTraceFields(span)

\* elasticCommonSchemaFormatter.GetRequestFields, the http.response object.
GetRequestFields(res) ==
    [mime_type |-> res.ContentType, status_code |-> res.StatusCode]

\* gcloudFormatter.GetRequestFields, the httpRequest object.
gcloudGetRequestFields(res) == [status |-> res.StatusCode]

\* h.options.requestFormatter.GetRequestFields(req, res)
requestFields(f, res) ==
    CASE f = "gcloud" -> gcloudGetRequestFields(res)
      [] f = "noop"   -> <<>>
      [] OTHER        -> GetRequestFields(res)

\* ------------------------------------------------------------------ options

\* defaultHandlerOptions, g being zap.L() at that moment.
defaultHandlerOptions(g) ==
    [logger             |-> g,
     perRequestLoggerFn |-> "default",
     perRequestFilterFn |-> "default",
     traceFormatter     |-> "ecs",
     requestFormatter   |-> "ecs"]

\* WithLogger, WithPerRequestLogger, WithPerRequestFilter,
\* WithTraceFormatter, WithRequestFormatter applied to the options.
applyOption(o, options) ==
    CASE o[1] = "WithLogger"           -> [options EXCEPT !.logger = o[2]]
      [] o[1] = "WithPerRequestLogger" -> [options EXCEPT !.perRequestLoggerFn = o[2]]
      [] o[1] = "WithPerRequestFilter" -> [options EXCEPT !.perRequestFilterFn = o[2]]
      [] o[1] = "WithTraceFormatter"   -> [options EXCEPT !.traceFormatter = o[2]]
      [] o[1] = "WithRequestFormatter" -> [options EXCEPT !.requestFormatter = o[2]]

\* A loop in which the first option given for a field wins.
RECURSIVE applyOptionsFirstWins(_, _)
applyOptionsFirstWins(os, options) ==
    IF os = <<>> THEN options
    ELSE applyOption(Head(os), applyOptionsFirstWins(Tail(os), options))

\* buildHandlerOptions: the defaults, then every option in the given order.
RECURSIVE applyOptions(_, _)
applyOptions(os, options) ==
    IF os = <<>> THEN options
    ELSE applyOptions(Tail(os), applyOption(Head(os), options))

buildHandlerOptions(os, g) == applyOptions(os, defaultHandlerOptions(g))

\* A logger whose core enables the levels from lv on.
LoggerAt(lv) == [level |-> lv, name |-> "", fields |-> <<>>]

ResponseInfo(status, ct) == [StatusCode |-> status, ContentType |-> ct]

\* ----------------------------------------------------- the underlying writer

NewWriter ==
    [header |-> "", wroteHeader |-> FALSE, code |-> 0, sentCT |-> "",
     body |-> <<>>, calls |-> <<>>]

\* http.ResponseWriter.Header followed by Set / Del of Content-Type.
UHeaderSet(wr, ct) ==
    [wr EXCEPT !.header = ct, !.calls = @ \o << <<"Header", ct>> >>]

\* http.ResponseWriter.WriteHeader: only the first header-send counts.
UWriteHeader(wr, code) ==
    IF wr.wroteHeader
    THEN [wr EXCEPT !.calls = @ \o << <<"WriteHeader", code>> >>]
    ELSE [wr EXCEPT !.wroteHeader = TRUE, !.code = code, !.sentCT = wr.header,
                    !.calls = @ \o << <<"WriteHeader", code>> >>]

\* http.ResponseWriter.Write: an unheaded write sends 200 OK first.
UWrite(wr, data) ==
    LET h == IF wr.wroteHeader THEN wr
             ELSE [wr EXCEPT !.wroteHeader = TRUE, !.code = StatusOK,
                             !.sentCT = wr.header]
    IN [h EXCEPT !.body = @ \o <<data>>, !.calls = @ \o << <<"Write", data>> >>]

\* ------------------------------------------------------------ statusRecorder

\* An observer that starts out reporting a sent 200.
NewStatusRecorderOK ==
    [writeHeaderCalled |-> FALSE, StatusCode |-> StatusOK, ContentType |-> ""]

NewStatusRecorder ==
    [writeHeaderCalled |-> FALSE, StatusCode |-> 0, ContentType |-> ""]

\* A WriteHeader that drops header-sends after the first one.
srWriteHeaderSwallow(s, wr, statusCode) ==
    IF s.writeHeaderCalled THEN [sr |-> s, w |-> wr]
    ELSE [sr |-> [writeHeaderCalled |-> TRUE, StatusCode |-> statusCode,
                  ContentType |-> wr.header],
          w  |-> UWriteHeader(wr, statusCode)]

\* statusRecorder.WriteHeader
srWriteHeader(s, wr, statusCode) ==
    [sr |-> [writeHeaderCalled |-> TRUE, StatusCode |-> statusCode,
             ContentType |-> wr.header],
     w  |-> UWriteHeader(wr, statusCode)]

\* A Write that passes the data on without the implicit header-send.
srWriteBare(s, wr, data) == [sr |-> s, w |-> UWrite(wr, data)]

\* A Write that sends the implicit header on every call.
srWriteAlwaysImplicit(s, wr, data) ==
    LET sent == UWriteHeader(wr, StatusOK)
    IN [sr |-> [writeHeaderCalled |-> TRUE, StatusCode |-> StatusOK,
                ContentType |-> wr.header],
        w  |-> UWrite(sent, data)]

\* statusRecorder.Write
srWrite(s, wr, data) ==
    LET h == IF ~s.writeHeaderCalled THEN srWriteHeader(s, wr, StatusOK)
             ELSE [sr |-> s, w |-> wr]
    IN [sr |-> h.sr, w |-> UWrite(h.w, data)]

\* An observer that re-reads Content-Type whenever the header map changes.
srHeaderSetRecords(s, wr, ct) ==
    [sr |-> [s EXCEPT !.ContentType = ct], w |-> UHeaderSet(wr, ct)]

\* statusRecorder.Header, then the handler's Set / Del on the returned map.
srHeaderSet(s, wr, ct) == [sr |-> s, w |-> UHeaderSet(wr, ct)]

\* ------------------------------------------------------- context propagation

\* A context is the chain of loggers stored under loggerContextKey, the most
\* recent last; the empty chain carries no logger.
\* An injection that leaves a logger already present in place.
injectLoggerKeepsExisting(c, lg) == IF c = <<>> THEN << lg >> ELSE c

\* injectLoggerInContext: context.WithValue on the request's context.
injectLoggerInContext(c, lg) == Append(c, lg)

\* zap.L() before any ReplaceGlobals: a no-op logger.
GlobalLogger == [level |-> "nop", name |-> "", fields |-> <<>>]

\* A FromContext that falls back silently.
FromContextSilent(c, g) ==
    IF c = <<>> THEN [l |-> g, diag |-> FALSE]
    ELSE [l |-> c[Len(c)], diag |-> FALSE]

\* FromContext on context c while zap.L() is g: the logger stored most
\* recently; else g, with a debug diagnostic logged on g.
FromContext(c, g) ==
    IF c = <<>> THEN [l |-> g, diag |-> TRUE]
    ELSE [l |-> c[Len(c)], diag |-> FALSE]

\* ---------------------------------------------------------------- logRequest

Line(r, by, lg, level, msg, res) ==
    [r |-> r, by |-> by, logger |-> lg.name, level |-> level, msg |-> msg,
     fields |-> lg.fields, res |-> res]

NoRes == [mime_type |-> "", status_code |-> 0 - 1]

\* A logRequest that consults the filter and ignores its verdict.
logRequestIgnoresFilter(st, r, lg, level, msg, res, ok) ==
    LET c1 == st.calls \o << <<"filter", level, ok = "accept">> >>
    IN IF Check(lg, level)
       THEN [log   |-> Append(st.log,
                          Line(r, "mw", lg, level, msg,
                               [mime_type |-> res.ContentType,
                                status_code |-> res.StatusCode])),
             calls |-> c1 \o << <<"fields", level>> >>,
             fault |-> "none"]
       ELSE [log |-> st.log, calls |-> c1, fault |-> "none"]

\* A logRequest that writes the entry without the logger's level check.
logRequestNoLevelCheck(st, r, lg, level, msg, res, ok) ==
    LET c1 == st.calls \o << <<"filter", level, ok = "accept">> >>
    IN IF ok = "reject" THEN [log |-> st.log, calls |-> c1, fault |-> "none"]
       ELSE [log   |-> Append(st.log,
                          Line(r, "mw", lg, level, msg,
                               [mime_type |-> res.ContentType,
                                status_code |-> res.StatusCode])),
             calls |-> c1 \o << <<"fields", level>> >>,
             fault |-> "none"]

\* A logRequest that composes the request fields before the level check.
logRequestEagerFields(o, st, r, lg, level, msg, res, ok) ==
    LET verdict == (ok # "reject")
        c1 == st.calls \o << <<"filter", level, verdict>> >>
        c2 == c1 \o << <<"fields", level>>, <<"check", level, Check(lg, level)>> >>
    IN IF ~verdict THEN [log |-> st.log, calls |-> c1, fault |-> "none"]
       ELSE IF Check(lg, level)
            THEN [log   |-> Append(st.log,
                              Line(r, "mw", lg, level, msg,
                                   requestFields(o.requestFormatter, res))),
                  calls |-> c2,
                  fault |-> "none"]
            ELSE [log |-> st.log, calls |-> c2, fault |-> "none"]

\* handler.logRequest under the options o: st is [log, calls]; ok is what the
\* collaborators do in this call (see CallOutcomes). The result carries the
\* new log, the calls made (the filter, l.Check, GetRequestFields, in call
\* order) and the fault the call ended in, if any.
logRequestWith(o, st, r, lg, level, msg, res, ok) ==
    IF ok = "filter panics"
    THEN [log |-> st.log, calls |-> st.calls \o << <<"filter panicked", level>> >>,
          fault |-> "filter"]
    ELSE LET verdict == (ok # "reject")
             c1 == st.calls \o << <<"filter", level, verdict>> >>
             c2 == c1 \o << <<"check", level, Check(lg, level)>> >>
         IN IF ~verdict THEN [log |-> st.log, calls |-> c1, fault |-> "none"]
            ELSE IF Check(lg, level)
                 THEN IF ok = "formatter panics"
                      THEN [log |-> st.log,
                            calls |-> c2 \o << <<"fields", level>> >>,
                            fault |-> "formatter"]
                      ELSE [log   |-> Append(st.log,
                                        Line(r, "mw", lg, level, msg,
                                             requestFields(o.requestFormatter, res))),
                            calls |-> c2 \o << <<"fields", level>> >>,
                            fault |-> "none"]
                 ELSE [log |-> st.log, calls |-> c2, fault |-> "none"]

\* handler.logRequest of the middleware instance.
logRequest(st, r, lg, level, msg, res, ok) ==
    logRequestWith(cfg, st, r, lg, level, msg, res, ok)

\* ------------------------------------------------------------- handleRequest

\* A classification with strict comparisons.
ClassifyStrict(status) ==
    IF status < 399 THEN [level |-> "info", msg |-> "HTTP request finished"]
    ELSE IF status < 499
         THEN [level |-> "warn",
               msg |-> "HTTP request failed due to a client error"]
         ELSE [level |-> "error", msg |-> "HTTP request failed"]

\* The status classification of handleRequest.
Classify(status) ==
    IF status <= 399 THEN [level |-> "info", msg |-> "HTTP request finished"]
    ELSE IF status <= 499
         THEN [level |-> "warn",
               msg |-> "HTTP request failed due to a client error"]
         ELSE [level |-> "error", msg |-> "HTTP request failed"]

\* The option lists of the main specification: a logger at some level and,
\* possibly, a caller's filter.
SpecOptionLists ==
    { << <<"WithLogger", LoggerAt(lv)>> >> : lv \in LoggerLevels }
      \cup { << <<"WithLogger", LoggerAt(lv)>>, <<"WithPerRequestFilter", "custom">> >> :
               lv \in LoggerLevels }

\* No second middleware instance.
NoInner == [pc |-> "none"]

\* NewHandler(os...) while zap.L() is some logger of G, before any of the
\* requests of R arrives.
InitBase(R, OL, G) ==
    /\ global \in G
    /\ opts \in OL
    /\ cfg = buildHandlerOptions(opts, global)
    /\ req \in [R -> [span : Spans]]
    /\ pc = [r \in R |-> "idle"]
    /\ l = [r \in R |-> NoLogger]
    /\ ctx = [r \in R |-> <<>>]
    /\ sr = [r \in R |-> NewStatusRecorder]
    /\ completed = [r \in R |-> FALSE]
    /\ w = [r \in R |-> NewWriter]
    /\ bare = [r \in R |-> NewWriter]
    /\ log = <<>>
    /\ calls = [r \in R |-> <<>>]
    /\ exit = [r \in R |-> <<"none">>]
    /\ outcome = [r \in R |-> <<"none">>]
    /\ ops = [r \in R |-> 0]
    /\ got = <<>>

InitWith(R, OL, G) == InitBase(R, OL, G) /\ inner = NoInner

Init == InitWith(Reqs, SpecOptionLists, {GlobalLogger})

\* The event the deferred function emits for an unwind.
panickedEventClassified(status) ==
    IF status <= 399 THEN [level |-> "info", msg |-> "HTTP request finished"]
    ELSE [level |-> "error", msg |-> "HTTP request failed"]

panickedEvent(status) == [level |-> "error", msg |-> "HTTP request panicked"]

\* A pre-handling event that reports a sent 200.
preResponseInfoOK == [StatusCode |-> StatusOK, ContentType |-> ""]

\* &ResponseInfo{Start: start}: the response of the pre-handling event.
preResponseInfo == ResponseInfo(0, "")

\* A deferred function that reports an empty response.
deferredFnZero(st, r, lg, done, s, ok) ==
    IF ~done
    THEN logRequest(st, r, lg, "error", "HTTP request panicked",
                    ResponseInfo(0, ""), ok)
    ELSE [log |-> st.log, calls |-> st.calls, fault |-> "none"]

\* The deferred function of handleRequest: logs iff completed is false.
\* The result carries the fault the deferred function itself ended in.
deferredFn(st, r, lg, done, s, ok) ==
    IF ~done
    THEN LET ev == panickedEvent(s.StatusCode)
         IN logRequest(st, r, lg, ev.level, ev.msg,
                       ResponseInfo(s.StatusCode, s.ContentType), ok)
    ELSE [log |-> st.log, calls |-> st.calls, fault |-> "none"]

\* handleRequest up to the call of next.ServeHTTP. A fault of the filter or
\* of the request formatter in the pre-handling event unwinds handleRequest
\* through its deferred function, with completed still false.
Begin(r) ==
    /\ pc[r] = "idle"
    /\ \E ok \in CallOutcomes(cfg) : \E ok2 \in CallOutcomes(cfg) :
         LET l0 == perRequestLoggerFn(cfg.perRequestLoggerFn, cfg.logger)
             c0 == calls[r] \o << <<"logger", cfg.logger, r>> >>
             valid == IsValid(req[r].span)
             l1 == IF valid
                   THEN With(l0, traceFields(cfg.traceFormatter, req[r].span))
                   ELSE l0
             c1 == IF valid THEN c0 \o << <<"trace">> >> ELSE c0
             out == logRequest([log |-> log, calls |-> c1], r, l1, "debug",
                               "Received HTTP request", preResponseInfo, ok)
             fin == deferredFn(out, r, l1, FALSE, NewStatusRecorder, ok2)
         IN /\ l' = [l EXCEPT ![r] = l1]
            /\ ctx' = [ctx EXCEPT ![r] = injectLoggerInContext(@, l1)]
            /\ IF out.fault = "none"
               THEN /\ log' = out.log
                    /\ calls' = [calls EXCEPT ![r] = out.calls]
                    /\ pc' = [pc EXCEPT ![r] = "handling"]
                    /\ UNCHANGED outcome
               ELSE /\ log' = fin.log
                    /\ calls' = [calls EXCEPT ![r] = fin.calls]
                    /\ pc' = [pc EXCEPT ![r] = "done"]
                    /\ outcome' = [outcome EXCEPT ![r] =
                                     <<"panic", IF fin.fault # "none"
                                                THEN fin.fault ELSE out.fault>>]
    /\ sr' = [sr EXCEPT ![r] = NewStatusRecorder]
    /\ completed' = [completed EXCEPT ![r] = FALSE]
    /\ UNCHANGED <<cfg, req, w, bare, exit, ops>>
    /\ UNCHANGED extra

Step(r) ==
    /\ pc[r] = "handling"
    /\ ops[r] < MaxOps
    /\ ops' = [ops EXCEPT ![r] = @ + 1]

\* The handler sets or deletes Content-Type through w.Header().
HandlerSetHeader(r) ==
    /\ Step(r)
    /\ \E ct \in ContentTypes :
         LET x == srHeaderSet(sr[r], w[r], ct)
         IN /\ sr' = [sr EXCEPT ![r] = x.sr]
            /\ w' = [w EXCEPT ![r] = x.w]
            /\ bare' = [bare EXCEPT ![r] = UHeaderSet(@, ct)]
    /\ UNCHANGED <<cfg, req, pc, l, ctx, completed, log, calls, exit, outcome>>
    /\ UNCHANGED extra

\* A middleware that keeps one observer for all the requests in flight.
HandlerWriteHeaderShared(r, S) ==
    /\ Step(r)
    /\ \E code \in S :
         LET x == srWriteHeader(sr[r], w[r], code)
         IN /\ sr' = [q \in DOMAIN sr |-> x.sr]
            /\ w' = [w EXCEPT ![r] = x.w]
            /\ bare' = [bare EXCEPT ![r] = UWriteHeader(@, code)]
    /\ UNCHANGED <<cfg, req, pc, l, ctx, completed, log, calls, exit, outcome>>
    /\ UNCHANGED extra

\* The handler calls w.WriteHeader(code), code drawn from S.
HandlerWriteHeader(r, S) ==
    /\ Step(r)
    /\ \E code \in S :
         LET x == srWriteHeader(sr[r], w[r], code)
         IN /\ sr' = [sr EXCEPT ![r] = x.sr]
            /\ w' = [w EXCEPT ![r] = x.w]
            /\ bare' = [bare EXCEPT ![r] = UWriteHeader(@, code)]
    /\ UNCHANGED <<cfg, req, pc, l, ctx, completed, log, calls, exit, outcome>>
    /\ UNCHANGED extra

\* The handler calls w.Write(data).
HandlerWrite(r) ==
    /\ Step(r)
    /\ \E data \in Chunks :
         LET x == srWrite(sr[r], w[r], data)
         IN /\ sr' = [sr EXCEPT ![r] = x.sr]
            /\ w' = [w EXCEPT ![r] = x.w]
            /\ bare' = [bare EXCEPT ![r] = UWrite(@, data)]
    /\ UNCHANGED <<cfg, req, pc, l, ctx, completed, log, calls, exit, outcome>>
    /\ UNCHANGED extra

\* Code holding context c calls FromContext(c) and logs at info level on the
\* logger it gets; the line is tagged r.
useFromContext(c, r) ==
    LET f == FromContext(c, global)
        log1 == IF f.diag /\ Check(f.l, "debug")
                THEN Append(log, Line(r, "FromContext", f.l, "debug",
                                      "FromContext is used outside of a HTTP request context",
                                      NoRes))
                ELSE log
    IN /\ got' = Append(got, [ctx |-> r, l |-> f.l, diag |-> f.diag, zapL |-> global])
       /\ log' = IF Check(f.l, "info")
                 THEN Append(log1, Line(r, "handler", f.l, "info", "handler message", NoRes))
                 ELSE log1

\* The handler logs at info level through FromContext(r.Context()).
HandlerLog(r) ==
    /\ Step(r)
    /\ useFromContext(ctx[r], r)
    /\ UNCHANGED <<cfg, req, pc, l, ctx, sr, completed, w, bare, calls, exit,
                   outcome>>
    /\ UNCHANGED <<global, opts, inner>>

\* The value of the local flag after next.ServeHTTP has returned.
completedNeverSet == FALSE

completedAfterServe == TRUE

\* What the deferred function leaves of an unwind e: it does not call
\* recover, so the unwind continues to the caller.
DeferredRecovers(e) == <<"return">>

Deferred(e) == e

\* next.ServeHTTP returns; handleRequest marks completion, logs the result
\* and returns through its deferred function. A fault of the filter or of the
\* request formatter in the completion event unwinds handleRequest through
\* the deferred function, with completed already set.
HandlerReturn(r) ==
    /\ pc[r] = "handling"
    /\ LET done == completedAfterServe
           cls == Classify(sr[r].StatusCode)
           res == ResponseInfo(sr[r].StatusCode, sr[r].ContentType)
       IN /\ completed' = [completed EXCEPT ![r] = done]
          /\ \E ok \in CallOutcomes(cfg) : \E ok2 \in CallOutcomes(cfg) :
               LET out == logRequest([log |-> log, calls |-> calls[r]], r, l[r],
                                     cls.level, cls.msg, res, ok)
                   fin == deferredFn(out, r, l[r], done, sr[r], ok2)
               IN /\ log' = fin.log
                  /\ calls' = [calls EXCEPT ![r] = fin.calls]
                  /\ outcome' = [outcome EXCEPT ![r] =
                                   IF fin.fault # "none" THEN <<"panic", fin.fault>>
                                   ELSE IF out.fault # "none"
                                        THEN <<"panic", out.fault>>
                                        ELSE <<"return">>]
    /\ exit' = [exit EXCEPT ![r] = <<"return">>]
    /\ pc' = [pc EXCEPT ![r] = "done"]
    /\ UNCHANGED <<cfg, req, l, ctx, sr, w, bare, ops>>
    /\ UNCHANGED extra

\* next.ServeHTTP unwinds (panic or runtime.Goexit) before completed is set;
\* the deferred function runs and the unwind goes on. A fault inside the
\* deferred function is a new panic, which takes the place of the unwind.
HandlerUnwind(r) ==
    /\ pc[r] = "handling"
    /\ \E e \in {<<"panic", v>> : v \in PanicValues} \cup {<<"goexit">>} :
       \E ok \in CallOutcomes(cfg) :
         LET fin == deferredFn([log |-> log, calls |-> calls[r]], r, l[r],
                               completed[r], sr[r], ok)
         IN /\ exit' = [exit EXCEPT ![r] = e]
            /\ outcome' = [outcome EXCEPT ![r] =
                             IF fin.fault # "none" THEN <<"panic", fin.fault>>
                             ELSE Deferred(e)]
            /\ log' = fin.log
            /\ calls' = [calls EXCEPT ![r] = fin.calls]
    /\ pc' = [pc EXCEPT ![r] = "done"]
    /\ UNCHANGED <<cfg, req, l, ctx, sr, completed, w, bare, ops>>
    /\ UNCHANGED extra

Next ==
    \E r \in Reqs :
        \/ Begin(r)
        \/ HandlerSetHeader(r)
        \/ HandlerWriteHeader(r, Codes)
        \/ HandlerWrite(r)
        \/ HandlerLog(r)
        \/ HandlerReturn(r)
        \/ HandlerUnwind(r)

Spec == Init /\ [][Next]_vars

\* The handler of the status-code table: it sends one status code out of
\* the whole range 100..599 and returns.
NextCodes ==
    \E r \in Reqs :
        \/ Begin(r)
        \/ /\ ops[r] = 0
           /\ HandlerWriteHeader(r, AllCodes)
        \/ /\ ops[r] = 1
           /\ HandlerReturn(r)

SpecCodes == Init /\ [][NextCodes]_vars

\* ------------------------------------------- FromContext outside a request

\* The loggers zap.ReplaceGlobals may install.
GlobalLoggers == {LoggerAt("debug"), LoggerAt("info")}

\* zap.ReplaceGlobals(g)
ReplaceGlobals ==
    /\ \E g \in GlobalLoggers \ {global} : global' = g
    /\ UNCHANGED <<cfg, req, pc, l, ctx, sr, completed, w, bare, log, calls,
                   exit, outcome, ops, opts, got, inner>>

\* Code outside any wrapped request calls FromContext(context.Background()).
OutsideFromContext ==
    /\ Len(got) < MaxOps
    /\ useFromContext(<<>>, "outside")
    /\ UNCHANGED <<cfg, req, pc, l, ctx, sr, completed, w, bare, calls, exit,
                   outcome, ops, global, opts, inner>>

\* A middleware built with or without WithLogger, requests whose handler
\* logs through FromContext, and code outside any request that does too.
InitCtx ==
    InitWith(Reqs, {<<>>, << <<"WithLogger", LoggerAt("debug")>> >>}, {GlobalLogger})

NextCtx ==
    \/ ReplaceGlobals
    \/ OutsideFromContext
    \/ \E r \in Reqs :
          \/ Begin(r)
          \/ ops[r] = 0 /\ HandlerLog(r)
          \/ HandlerReturn(r)

SpecCtx == InitCtx /\ [][NextCtx]_vars

\* ------------------------------------------------------ NewHandler options

MaxOpts == 2

\* The options a caller may pass to NewHandler.
OptionValues ==
    {<<"WithLogger", LoggerAt(lv)>> : lv \in {"debug", "warn"}}
      \cup {<<"WithPerRequestLogger", "custom">>, <<"WithPerRequestFilter", "custom">>}
      \cup {<<"WithTraceFormatter", f>> : f \in {"gcloud", "noop"}}
      \cup {<<"WithRequestFormatter", f>> : f \in {"gcloud", "noop"}}

OptionLists == UNION {[1..n -> OptionValues] : n \in 0..MaxOpts}

\* NewHandler with any list of at most MaxOpts options.
InitOptions == InitWith(Reqs, OptionLists, {GlobalLogger, LoggerAt("info")})

\* Requests whose handler logs, sends a status, and returns or unwinds.
NextOptions ==
    \E r \in Reqs :
        \/ Begin(r)
        \/ ops[r] = 0 /\ HandlerLog(r)
        \/ ops[r] < 2 /\ HandlerWriteHeader(r, Codes)
        \/ HandlerReturn(r)
        \/ HandlerUnwind(r)

SpecOptions == InitOptions /\ [][NextOptions]_vars

\* -------------------------------------------------------- nested middleware

\* A second middleware instance, built with the options os and wrapped by
\* the first one: its handleRequest is the first one's next.ServeHTTP, its
\* writer is the first one's statusRecorder, its request the first one's.
NewInner(os) ==
    [pc        |-> "idle",
     cfg       |-> buildHandlerOptions(os, GlobalLogger),
     l         |-> NoLogger,
     ctx       |-> <<>>,
     sr        |-> NewStatusRecorder,
     completed |-> FALSE,
     calls     |-> <<>>,
     exit      |-> <<"none">>]

InnerOptionLists ==
    { << <<"WithLogger", LoggerAt(lv)>> >> : lv \in {"debug", "warn"} }
      \cup { << <<"WithLogger", LoggerAt("debug")>>, <<"WithPerRequestLogger", "custom">> >> }

InitNested ==
    /\ InitBase(Reqs, {os \in SpecOptionLists : Len(os) = 1}, {GlobalLogger})
    /\ inner \in {NewInner(os) : os \in InnerOptionLists}

\* handleRequest of the inner middleware up to its call of next.ServeHTTP.
InnerBegin(r) ==
    /\ pc[r] = "handling"
    /\ inner.pc = "idle"
    /\ \E ok \in CallOutcomes(inner.cfg) :
         LET l0 == perRequestLoggerFn(inner.cfg.perRequestLoggerFn, inner.cfg.logger)
             valid == IsValid(req[r].span)
             l1 == IF valid
                   THEN With(l0, traceFields(inner.cfg.traceFormatter, req[r].span))
                   ELSE l0
             out == logRequestWith(inner.cfg, [log |-> log, calls |-> inner.calls],
                                   "inner", l1, "debug", "Received HTTP request",
                                   preResponseInfo, ok)
         IN /\ inner' = [inner EXCEPT !.pc = "handling",
                                      !.l = l1,
                                      !.ctx = injectLoggerInContext(ctx[r], l1),
                                      !.calls = out.calls]
            /\ log' = out.log
    /\ UNCHANGED <<cfg, req, pc, l, ctx, sr, completed, w, bare, calls, exit,
                   outcome, ops, global, opts, got>>

\* The innermost handler logs through FromContext(r.Context()).
InnerHandlerLog(r) ==
    /\ Step(r)
    /\ inner.pc = "handling"
    /\ useFromContext(inner.ctx, r)
    /\ UNCHANGED <<cfg, req, pc, l, ctx, sr, completed, w, bare, calls, exit,
                   outcome, global, opts, inner>>

\* The innermost handler calls w.WriteHeader(code): the inner statusRecorder
\* records and forwards to the outer one, which records and forwards.
InnerWriteHeader(r) ==
    /\ Step(r)
    /\ inner.pc = "handling"
    /\ \E code \in Codes :
         LET x1 == srWriteHeader(inner.sr, w[r], code)
             x2 == srWriteHeader(sr[r], w[r], code)
         IN /\ inner' = [inner EXCEPT !.sr = x1.sr]
            /\ sr' = [sr EXCEPT ![r] = x2.sr]
            /\ w' = [w EXCEPT ![r] = x2.w]
            /\ bare' = [bare EXCEPT ![r] = UWriteHeader(@, code)]
    /\ UNCHANGED <<cfg, req, pc, l, ctx, completed, log, calls, exit, outcome,
                   global, opts, got>>

\* The innermost handler returns: the inner handleRequest logs its
\* completion event and returns to the outer one.
InnerReturn(r) ==
    /\ inner.pc = "handling"
    /\ \E ok \in CallOutcomes(inner.cfg) :
         LET cls == Classify(inner.sr.StatusCode)
             out == logRequestWith(inner.cfg, [log |-> log, calls |-> inner.calls],
                                   "inner", inner.l, cls.level, cls.msg,
                                   ResponseInfo(inner.sr.StatusCode, inner.sr.ContentType),
                                   ok)
         IN /\ inner' = [inner EXCEPT !.pc = "returned",
                                      !.completed = completedAfterServe,
                                      !.calls = out.calls,
                                      !.exit = <<"return">>]
            /\ log' = out.log
    /\ UNCHANGED <<cfg, req, pc, l, ctx, sr, completed, w, bare, calls, exit,
                   outcome, ops, global, opts, got>>

\* The innermost handler unwinds: the inner deferred function logs the
\* "panicked" event and the unwind goes on into the outer handleRequest.
InnerUnwind(r) ==
    /\ inner.pc = "handling"
    /\ \E e \in {<<"panic", v>> : v \in PanicValues} \cup {<<"goexit">>} :
       \E ok \in CallOutcomes(inner.cfg) :
         LET ev == panickedEvent(inner.sr.StatusCode)
             out == logRequestWith(inner.cfg, [log |-> log, calls |-> inner.calls],
                                   "inner", inner.l, ev.level, ev.msg,
                                   ResponseInfo(inner.sr.StatusCode, inner.sr.ContentType),
                                   ok)
         IN /\ inner' = [inner EXCEPT !.pc = "unwound",
                                      !.calls = out.calls,
                                      !.exit = Deferred(e)]
            /\ log' = out.log
    /\ UNCHANGED <<cfg, req, pc, l, ctx, sr, completed, w, bare, calls, exit,
                   outcome, ops, global, opts, got>>

NextNested ==
    \E r \in Reqs :
        \/ Begin(r)
        \/ InnerBegin(r)
        \/ InnerHandlerLog(r)
        \/ InnerWriteHeader(r)
        \/ InnerReturn(r)
        \/ InnerUnwind(r)
        \/ inner.pc = "returned" /\ HandlerReturn(r)
        \/ inner.pc = "unwound" /\ HandlerUnwind(r) /\ exit'[r] = inner.exit

SpecNested == InitNested /\ [][NextNested]_vars

\* ------------------------------------------------------ concurrent requests

\* Two requests in flight on one middleware instance: net/http runs each
\* ServeHTTP on its own goroutine, so their steps interleave freely.
ConcReqs == {"r1", "r2"}

\* One request inside a valid span, the other outside any.
InitConc ==
    /\ InitWith(ConcReqs,
                { << <<"WithLogger", LoggerAt(lv)>> >> : lv \in {"debug", "info"} },
                {GlobalLogger})
    /\ ~IsValid(req["r1"].span)
    /\ IsValid(req["r2"].span)

\* Each handler sets Content-Type or logs, sends a status, and returns or
\* panics.
NextConc ==
    \E r \in ConcReqs :
        \/ Begin(r)
        \/ ops[r] = 0 /\ HandlerSetHeader(r)
        \/ ops[r] = 0 /\ HandlerLog(r)
        \/ ops[r] < 2 /\ HandlerWriteHeader(r, {404, 500})
        \/ HandlerReturn(r)
        \/ HandlerUnwind(r) /\ exit'[r] = <<"panic", "err">>

SpecConc == InitConc /\ [][NextConc]_vars

\* ------------------------------------------- faults of filter and formatter

\* A caller's filter, request formatter, or both, may panic in any call.
FaultyOptionLists ==
    { << <<"WithLogger", LoggerAt(lv)>> >> \o tl :
        lv \in {"debug", "info"},
        tl \in { << <<"WithPerRequestFilter", "faulty">> >>,
                 << <<"WithRequestFormatter", "faulty">> >>,
                 << <<"WithPerRequestFilter", "faulty">>,
                    <<"WithRequestFormatter", "faulty">> >> } }

InitFaults == InitWith(Reqs, FaultyOptionLists, {GlobalLogger})

NextFaults ==
    \E r \in Reqs :
        \/ Begin(r)
        \/ ops[r] = 0 /\ HandlerWriteHeader(r, Codes)
        \/ HandlerReturn(r)
        \/ HandlerUnwind(r)

SpecFaults == InitFaults /\ [][NextFaults]_vars

\* ------------------------------------------------------- reading the log

\* The lines of request r written by the middleware, in order.
MwLines(r) == SelectSeq(log, LAMBDA x : x.r = r /\ x.by = "mw")

\* Every line of request r, the handler's own included.
ReqLines(r) == SelectSeq(log, LAMBDA x : x.r = r)

IsPre(x) == x.msg = "Received HTTP request"

IsPanicked(x) == x.msg = "HTTP request panicked"

IsCompletion(x) ==
    x.msg \in {"HTTP request finished",
               "HTTP request failed due to a client error",
               "HTTP request failed"}

Count(seq, P(_)) == Len(SelectSeq(seq, P))

\* The level and message of every line of a sequence.
Brief(seq) == [i \in 1..Len(seq) |-> <<seq[i].level, seq[i].msg>>]

\* The verdicts the filter returned for request r, in order.
FilterCalls(r) == SelectSeq(calls[r], LAMBDA c : c[1] = "filter")

AllAccepted(r) == \A i \in 1..Len(FilterCalls(r)) : FilterCalls(r)[i][3]

Returned(r) == pc[r] = "done" /\ exit[r] = <<"return">>

Unwound(r) == pc[r] = "done" /\ exit[r] # <<"return">>

\* The calls the handler made on the writer it was given.
HandlerCalls(r) == bare[r].calls

\* ------------------------------------------------------------------ claims

\* C1: for every status code c in 100..599 that a normally returning handler
\* sends with WriteHeader(c), under the default filter and a logger at info
\* level, exactly one log line is produced, and it is info "HTTP request
\* finished" for c <= 399, warn "HTTP request failed due to a client error"
\* for 400 <= c <= 499, error "HTTP request failed" for c >= 500.
C1_StatusTable ==
    \A r \in Reqs :
        ( /\ Returned(r)
          /\ cfg.perRequestFilterFn = "default"
          /\ cfg.logger.level = "info"
          /\ Len(HandlerCalls(r)) = 1
          /\ HandlerCalls(r)[1][1] = "WriteHeader" )
        => LET c == HandlerCalls(r)[1][2]
           IN /\ c \in 100..599
              /\ Brief(ReqLines(r)) =
                   << IF c <= 399 THEN <<"info", "HTTP request finished">>
                      ELSE IF c <= 499
                           THEN <<"warn", "HTTP request failed due to a client error">>
                           ELSE <<"error", "HTTP request failed">> >>

C1_Witness ==
    \E r \in Reqs :
        /\ Returned(r)
        /\ cfg.perRequestFilterFn = "default"
        /\ cfg.logger.level = "info"
        /\ HandlerCalls(r) = << <<"WriteHeader", 499>> >>
        /\ Brief(ReqLines(r)) =
             << <<"warn", "HTTP request failed due to a client error">> >>

\* C2: with a filter that accepts every emission and a logger that enables
\* every level, a request gets exactly one terminal event (completion or
\* "panicked") and at most one pre-handling event, however the handler ends;
\* a completion event and a "panicked" event are never both logged.
C2_OneTerminalEvent ==
    \A r \in Reqs :
        LET m == MwLines(r)
            term == Count(m, IsCompletion) + Count(m, IsPanicked)
        IN /\ Count(m, IsPre) <= 1
           /\ term <= 1
           /\ ~(Count(m, IsCompletion) > 0 /\ Count(m, IsPanicked) > 0)
           /\ pc[r] # "done" => term = 0
           /\ (pc[r] = "done" /\ AllAccepted(r) /\ cfg.logger.level = "debug")
              => /\ term = 1
                 /\ Count(m, IsPre) = 1
                 /\ Len(m) = 2

C2_Witness ==
    \E r \in Reqs :
        /\ Unwound(r)
        /\ w[r].wroteHeader
        /\ AllAccepted(r)
        /\ cfg.perRequestFilterFn = "custom"
        /\ cfg.logger.level = "debug"
        /\ Count(MwLines(r), IsPanicked) = 1
        /\ Count(MwLines(r), IsPre) = 1

\* C3: if the handler unwinds (panic with a value, panic(nil), Goexit)
\* before writing any response, and the error-level emission is accepted by
\* the filter and enabled by the logger, exactly one "HTTP request panicked"
\* line is produced, at error level, and no completion line of any severity;
\* with a logger that does not enable debug it is the request's only
\* middleware line.
C3_PanickedLine ==
    \A r \in Reqs :
        ( /\ Unwound(r)
          /\ ~w[r].wroteHeader
          /\ AllAccepted(r)
          /\ Check(cfg.logger, "error") )
        => LET m == MwLines(r)
           IN /\ Count(m, IsPanicked) = 1
              /\ Count(m, IsCompletion) = 0
              /\ \A i \in 1..Len(m) : IsPanicked(m[i]) => m[i].level = "error"
              /\ Brief(SelectSeq(m, LAMBDA x : ~IsPre(x))) =
                   << <<"error", "HTTP request panicked">> >>
              /\ ~Check(cfg.logger, "debug")
                 => Brief(m) = << <<"error", "HTTP request panicked">> >>

C3_Witness ==
    \E r \in Reqs :
        /\ Unwound(r)
        /\ exit[r] = <<"panic", "nil">>
        /\ ~w[r].wroteHeader
        /\ cfg.perRequestFilterFn = "default"
        /\ cfg.logger.level = "info"
        /\ Brief(MwLines(r)) = << <<"error", "HTTP request panicked">> >>

\* C4: the middleware never recovers or converts an unwind of the handler:
\* when the handler panics with v, the wrapped ServeHTTP ends in the same
\* panic with v (the "panicked" event logged by then when the filter accepts
\* it and the logger enables it), and it returns normally only when the
\* handler returned normally.
C4_UnwindPropagates ==
    \A r \in Reqs :
        /\ pc[r] = "done" => outcome[r] = exit[r]
        /\ pc[r] # "done" => outcome[r] = <<"none">>
        /\ outcome[r] = <<"return">> => exit[r] = <<"return">>
        /\ (Unwound(r) /\ AllAccepted(r) /\ Check(cfg.logger, "error"))
           => Count(MwLines(r), IsPanicked) = 1

C4_Witness ==
    \E r \in Reqs :
        /\ pc[r] = "done"
        /\ exit[r] = <<"panic", "err">>
        /\ outcome[r] = <<"panic", "err">>
        /\ Count(MwLines(r), IsPanicked) = 1

\* ------------------------------------------------ reading the writer calls

IsSend(c) == c[1] # "Header"

IsWriteHeader(c) == c[1] = "WriteHeader"

\* The WriteHeader / Write calls of a call sequence, in order.
Sends(h) == SelectSeq(h, IsSend)

\* Header-sends the underlying writer received that the handler did not make.
Synthesized(r) ==
    Count(w[r].calls, IsWriteHeader) - Count(HandlerCalls(r), IsWriteHeader)

\* The Content-Type the handler had set just before its i-th call.
RECURSIVE HeaderBefore(_, _)
HeaderBefore(h, i) ==
    IF i <= 1 THEN ""
    ELSE IF h[i - 1][1] = "Header" THEN h[i - 1][2]
         ELSE HeaderBefore(h, i - 1)

\* The index of the handler's first WriteHeader / Write call, 0 if none.
FirstSendAt(h) ==
    IF \E i \in 1..Len(h) : IsSend(h[i])
    THEN CHOOSE i \in 1..Len(h) :
            IsSend(h[i]) /\ \A j \in 1..(i - 1) : ~IsSend(h[j])
    ELSE 0

\* The calls a transparent observer passes on for the handler's calls h: the
\* same calls in the same order, with one WriteHeader(200) put before a first
\* Write that no WriteHeader preceded.
RECURSIVE Forwarded(_, _)
Forwarded(h, headed) ==
    IF h = <<>> THEN <<>>
    ELSE LET c == Head(h)
         IN IF c[1] = "Write" /\ ~headed
            THEN << <<"WriteHeader", 200>>, c >> \o Forwarded(Tail(h), TRUE)
            ELSE <<c>> \o Forwarded(Tail(h), headed \/ c[1] = "WriteHeader")

\* What the client is delivered by a writer.
Delivered(wr) ==
    [wroteHeader |-> wr.wroteHeader, code |-> wr.code, sentCT |-> wr.sentCT,
     body |-> wr.body, header |-> wr.header]

\* C5, state part: the implicit header-send is synthesized exactly once when
\* the handler's first send is a Write, directly before that Write, and never
\* otherwise; while no explicit WriteHeader was made, the recorded status is
\* 200 and the recorded content type is the header value at the first Write.
C5_ImplicitOnce ==
    \A r \in Reqs :
        LET h == HandlerCalls(r)
            k == FirstSendAt(h)
        IN IF k # 0 /\ h[k][1] = "Write"
           THEN /\ Synthesized(r) = 1
                /\ Sends(w[r].calls) = << <<"WriteHeader", 200>> >> \o Sends(h)
                /\ Count(h, IsWriteHeader) = 0
                   => sr[r] = [writeHeaderCalled |-> TRUE, StatusCode |-> 200,
                               ContentType |-> HeaderBefore(h, k)]
           ELSE /\ Synthesized(r) = 0
                /\ Sends(w[r].calls) = Sends(h)

\* C5, step part: a Write with no send before it records status 200 and the
\* current Content-Type and passes WriteHeader(200) then the Write; any later
\* Write passes the Write alone and records nothing.
C5_WriteStep ==
    \A r \in Reqs :
        \A d \in Chunks :
            bare'[r].calls = Append(bare[r].calls, <<"Write", d>>)
            => IF FirstSendAt(bare[r].calls) = 0
               THEN /\ sr'[r] = [writeHeaderCalled |-> TRUE, StatusCode |-> 200,
                                 ContentType |-> w[r].header]
                    /\ w'[r].calls =
                         w[r].calls \o << <<"WriteHeader", 200>>, <<"Write", d>> >>
               ELSE /\ sr'[r] = sr[r]
                    /\ w'[r].calls = Append(w[r].calls, <<"Write", d>>)

\* C5: a Write before any WriteHeader first performs an implicit
\* WriteHeader(200), recording status 200 and the Content-Type present at
\* that moment, and then forwards the write; over any sequence of calls the
\* implicit header-send is synthesized exactly once, and never when an
\* explicit WriteHeader preceded the first Write.
C5_ImplicitHeaderSend == [][C5_WriteStep]_vars /\ []C5_ImplicitOnce

C5_Witness ==
    \E r \in Reqs :
        /\ HandlerCalls(r) =
             << <<"Header", "text/plain">>, <<"Write", "a">>, <<"Write", "a">> >>
        /\ Synthesized(r) = 1
        /\ sr[r].StatusCode = 200
        /\ sr[r].ContentType = "text/plain"

\* The status and the content type in effect when the handler's calls h
\* first finalized the headers: at its first WriteHeader or Write.
FirstFinalized(h) ==
    LET k == FirstSendAt(h)
    IN [mime_type   |-> HeaderBefore(h, k),
        status_code |-> IF h[k][1] = "WriteHeader" THEN h[k][2] ELSE 200]

\* C6 (as claimed): after the first header-send on the observer, later
\* WriteHeader calls and header mutations do not change the recorded status
\* code or content type, so the recorded values, and the status and content
\* type of the completion event, are those in effect at the first header
\* finalization.
C6_FirstSendReported ==
    \A r \in Reqs :
        FirstSendAt(HandlerCalls(r)) # 0
        => LET first == FirstFinalized(HandlerCalls(r))
           IN /\ sr[r].StatusCode = first.status_code
              /\ sr[r].ContentType = first.mime_type
              /\ Returned(r)
                 => \A i \in 1..Len(MwLines(r)) :
                       IsCompletion(MwLines(r)[i]) => MwLines(r)[i].res = first

\* C7: the observer is transparent: the underlying writer receives the
\* handler's Header / Write / WriteHeader calls with the same arguments in the
\* same order, plus the single implicit WriteHeader(200) before a first
\* unheaded Write, and nothing from the middleware itself; what the client is
\* delivered equals what the bare handler delivers.
C7_Transparent ==
    \A r \in Reqs :
        /\ w[r].calls = Forwarded(HandlerCalls(r), FALSE)
        /\ Delivered(w[r]) = Delivered(bare[r])
        /\ pc[r] = "idle" => w[r].calls = <<>>

C7_Witness ==
    \E r \in Reqs :
        /\ pc[r] = "done"
        /\ HandlerCalls(r) =
             << <<"Write", "a">>, <<"Header", "text/plain">>, <<"WriteHeader", 404>> >>
        /\ w[r].calls =
             << <<"WriteHeader", 200>>, <<"Write", "a">>, <<"Header", "text/plain">>,
                <<"WriteHeader", 404>> >>
        /\ w[r].code = 200
        /\ w[r].body = <<"a">>

\* The severity of the terminal emission of a finished request.
TerminalEvent(r) ==
    IF exit[r] # <<"return">> THEN <<"error", "HTTP request panicked">>
    ELSE IF sr[r].StatusCode <= 399 THEN <<"info", "HTTP request finished">>
    ELSE IF sr[r].StatusCode <= 499
         THEN <<"warn", "HTTP request failed due to a client error">>
         ELSE <<"error", "HTTP request failed">>

PreEvent == <<"debug", "Received HTTP request">>

\* The line of a candidate emission ev, given the filter's verdict for it.
Emitted(ev, ok) == IF ok /\ Check(cfg.logger, ev[1]) THEN <<ev>> ELSE <<>>

\* C8: the filter is evaluated once, with the emission's severity, for every
\* candidate emission of a request (pre-handling, then completion or
\* "panicked"); a false verdict suppresses that emission and nothing else: the
\* other emission is decided by its own verdict, the handler still runs and
\* the response delivered is that of the bare handler; a filter that always
\* returns false yields no middleware line.
C8_FilterPerEmission ==
    \A r \in Reqs :
        LET f == FilterCalls(r)
        IN /\ pc[r] = "idle" => f = <<>>
           /\ pc[r] = "handling"
              => /\ Len(f) = 1
                 /\ f[1][2] = "debug"
                 /\ Brief(MwLines(r)) = Emitted(PreEvent, f[1][3])
           /\ pc[r] = "done"
              => /\ Len(f) = 2
                 /\ f[1][2] = "debug"
                 /\ f[2][2] = TerminalEvent(r)[1]
                 /\ Brief(MwLines(r)) =
                      Emitted(PreEvent, f[1][3]) \o Emitted(TerminalEvent(r), f[2][3])
                 /\ exit[r] # <<"none">>
                 /\ Delivered(w[r]) = Delivered(bare[r])
                 /\ (~f[1][3] /\ ~f[2][3]) => MwLines(r) = <<>>

C8_Witness ==
    \E r \in Reqs :
        /\ Returned(r)
        /\ cfg.logger.level = "debug"
        /\ FilterCalls(r) = << <<"filter", "debug", FALSE>>, <<"filter", "warn", TRUE>> >>
        /\ Brief(MwLines(r)) =
             << <<"warn", "HTTP request failed due to a client error">> >>
        /\ w[r].code = 404

\* C9 (as claimed): for a handler that returns normally under the default
\* filter, a logger that enables debug gives exactly two middleware lines,
\* debug "Received HTTP request" then the completion line, and a logger that
\* does not enable debug gives exactly one line, the completion line.
C9_LineCount ==
    \A r \in Reqs :
        (Returned(r) /\ cfg.perRequestFilterFn = "default")
        => IF Check(cfg.logger, "debug")
           THEN Brief(MwLines(r)) = <<PreEvent, TerminalEvent(r)>>
           ELSE Brief(MwLines(r)) = <<TerminalEvent(r)>>

\* C9 (amended): as claimed when the logger enables debug; when it does not,
\* no "Received HTTP request" line is produced and the completion line is the
\* only line, produced exactly when the logger enables the completion line's
\* level, so exactly one line for a logger at info level.
C9_LineCountByLevel ==
    \A r \in Reqs :
        (Returned(r) /\ cfg.perRequestFilterFn = "default")
        => /\ Check(cfg.logger, "debug")
              => Brief(MwLines(r)) = <<PreEvent, TerminalEvent(r)>>
           /\ ~Check(cfg.logger, "debug")
              => /\ Count(MwLines(r), IsPre) = 0
                 /\ Check(cfg.logger, TerminalEvent(r)[1])
                    => Brief(MwLines(r)) = <<TerminalEvent(r)>>
                 /\ ~Check(cfg.logger, TerminalEvent(r)[1]) => MwLines(r) = <<>>
           /\ cfg.logger.level = "info"
              => Brief(MwLines(r)) = <<TerminalEvent(r)>>

C9_Witness ==
    \E r \in Reqs :
        /\ Returned(r)
        /\ cfg.perRequestFilterFn = "default"
        /\ cfg.logger.level = "warn"
        /\ sr[r].StatusCode = 404
        /\ Brief(MwLines(r)) =
             << <<"warn", "HTTP request failed due to a client error">> >>

\* C10: with a valid span context the trace formatter is invoked exactly once
\* for the request and its fields are, with the same values, on the
\* pre-handling line, the terminal line and every line the handler logs
\* through the logger of the request context; with an invalid span context it
\* is never invoked and no line of the request carries trace fields.
C10_TraceFields ==
    \A r \in Reqs :
        LET n == Count(calls[r], LAMBDA c : c[1] = "trace")
            span == req[r].span
            ls == ReqLines(r)
        IN /\ pc[r] = "idle" => n = 0 /\ ls = <<>>
           /\ pc[r] # "idle"
              => IF span.traceID # 0 /\ span.spanID # 0
                 THEN /\ n = 1
                      /\ \A i \in 1..Len(ls) :
                           ls[i].fields =
                             << [key |-> "trace", id |-> span.traceID,
                                 sampled |-> span.sampled],
                                [key |-> "span", id |-> span.spanID] >>
                 ELSE /\ n = 0
                      /\ \A i \in 1..Len(ls) : ls[i].fields = <<>>

C10_Witness ==
    \E r \in Reqs :
        /\ pc[r] = "done"
        /\ req[r].span.traceID = 7 /\ req[r].span.spanID = 3
        /\ Count(calls[r], LAMBDA c : c[1] = "trace") = 1
        /\ Count(ReqLines(r), LAMBDA x : x.by = "handler") = 1
        /\ Count(ReqLines(r), IsPre) = 1
        /\ Count(ReqLines(r), IsCompletion) = 1
        /\ \A i \in 1..Len(ReqLines(r)) : Len(ReqLines(r)[i].fields) = 2

\* The diagnostics FromContext has logged, in order.
DiagLines == SelectSeq(log, LAMBDA x : x.by = "FromContext")

\* The FromContext calls whose diagnostic a debug-enabled logger wrote.
DiagCalls == SelectSeq(got, LAMBDA g : g.diag /\ Check(g.l, "debug"))

\* C11: FromContext always returns a logger. Called on a context without an
\* injected logger it returns the process-wide logger current at that moment
\* and logs one debug-level diagnostic on it (one line per call when that
\* logger enables debug); called on the context of a wrapped request it
\* returns that request's per-request logger and logs no diagnostic.
C11_FromContextFallback ==
    /\ \A i \in 1..Len(got) :
         /\ got[i].l # NoLogger
         /\ got[i].ctx = "outside" => got[i].l = got[i].zapL /\ got[i].diag
         /\ got[i].ctx \in Reqs => got[i].l = l[got[i].ctx] /\ ~got[i].diag
    /\ Len(DiagLines) = Len(DiagCalls)
    /\ \A i \in 1..Len(DiagLines) :
         /\ DiagLines[i].level = "debug"
         /\ DiagLines[i].r = "outside"
         /\ DiagLines[i].logger = DiagCalls[i].l.name
         /\ DiagLines[i].fields = DiagCalls[i].l.fields

C11_Witness ==
    /\ Len(DiagLines) = 2
    /\ \E i \in 1..Len(got) :
         got[i].ctx = "outside" /\ got[i].l = LoggerAt("debug") /\ got[i].diag
    /\ \E i \in 1..Len(got) :
         got[i].ctx \in Reqs /\ got[i].l.name = "request" /\ ~got[i].diag

\* The value the last option of the given kind carries, dflt if there is none.
LastGiven(kind, dflt) ==
    LET I == {i \in 1..Len(opts) : opts[i][1] = kind}
    IN IF I = {} THEN dflt
       ELSE opts[CHOOSE i \in I : \A j \in I : j <= i][2]

C12_Built ==
    cfg = [logger             |-> LastGiven("WithLogger", global),
           perRequestLoggerFn |-> LastGiven("WithPerRequestLogger", "default"),
           perRequestFilterFn |-> LastGiven("WithPerRequestFilter", "default"),
           traceFormatter     |-> LastGiven("WithTraceFormatter", "ecs"),
           requestFormatter   |-> LastGiven("WithRequestFormatter", "ecs")]

C12_Frame == cfg' = cfg

\* C12: the configuration of a middleware is the defaults (the global logger,
\* the constructor naming the logger "request", the filter that is always
\* true, the common-schema formatters) overridden by the options in the
\* order given: for each field the last option setting it wins, a field no
\* option sets keeps its default; and no step of handling a request changes
\* any field of it.
C12_Options == [][C12_Frame]_vars /\ []C12_Built

C12_Witness ==
    /\ Len(opts) = 2
    /\ opts[1][1] = "WithLogger" /\ opts[2][1] = "WithLogger"
    /\ opts[1][2] # opts[2][2]
    /\ cfg.logger = opts[2][2]
    /\ cfg.requestFormatter = "ecs"
    /\ \E r \in Reqs : pc[r] = "done" /\ Len(MwLines(r)) = 2

\* The logger handleRequest builds for request r out of the configuration.
RequestLogger(r) ==
    LET base == IF cfg.perRequestLoggerFn = "default"
                THEN [cfg.logger EXCEPT !.name = "request"]
                ELSE [cfg.logger EXCEPT !.fields =
                        @ \o << [key |-> "custom", value |-> "field"] >>]
        tf == CASE cfg.traceFormatter = "noop" -> <<>>
                [] cfg.traceFormatter = "gcloud" -> gcloudGetTraceFields(req[r].span)
                [] OTHER -> GetTraceFields(req[r].span)
    IN IF req[r].span.traceID # 0 /\ req[r].span.spanID # 0
       THEN [base EXCEPT !.fields = @ \o tf]
       ELSE base

\* C13: for every request the per-request-logger constructor is called
\* exactly once, with the base logger and the request, before anything else
\* of the request; the logger it returns (extended with the trace fields
\* when the span is valid) is the one logger injected into the request's
\* context, the one FromContext returns inside the handler, and the one that
\* writes the pre-handling and the terminal event.
C13_OneRequestLogger ==
    \A r \in Reqs :
        pc[r] # "idle" =>
            /\ Count(calls[r], LAMBDA c : c[1] = "logger") = 1
            /\ calls[r][1] = <<"logger", cfg.logger, r>>
            /\ l[r] = RequestLogger(r)
            /\ ctx[r] = << l[r] >>
            /\ \A i \in 1..Len(got) : got[i].ctx = r => got[i].l = l[r]
            /\ \A i \in 1..Len(ReqLines(r)) :
                 /\ ReqLines(r)[i].logger = l[r].name
                 /\ ReqLines(r)[i].fields = l[r].fields

C13_Witness ==
    \E r \in Reqs :
        /\ pc[r] = "done"
        /\ cfg.perRequestLoggerFn = "custom"
        /\ cfg.traceFormatter = "gcloud"
        /\ IsValid(req[r].span)
        /\ Len(l[r].fields) = 4
        /\ \E i \in 1..Len(got) : got[i].ctx = r
        /\ Brief(ReqLines(r)) = << <<"info", "handler message">>,
                                   <<"info", "HTTP request finished">> >>

\* The index of the handler's last WriteHeader call, 0 if none.
LastWriteHeaderAt(h) ==
    IF \E i \in 1..Len(h) : IsWriteHeader(h[i])
    THEN CHOOSE i \in 1..Len(h) :
            IsWriteHeader(h[i]) /\ \A j \in (i + 1)..Len(h) : ~IsWriteHeader(h[j])
    ELSE 0

\* The last middleware line of request r.
LastMwLine(r) == MwLines(r)[Len(MwLines(r))]

\* C14: if the handler unwinds, with or without WriteHeader / Write calls
\* before, and the filter accepts the emission and the logger enables error,
\* the terminal event is "HTTP request panicked" at error level whatever the
\* status captured (no completion line of any severity), carrying the status
\* code and content type the observer holds from before the unwind: those of
\* the handler's single header-send when it made one, 0 and the empty
\* content type when it wrote nothing.
C14_PanickedCarriesRecorded ==
    \A r \in Reqs :
        ( /\ Unwound(r)
          /\ AllAccepted(r)
          /\ Check(cfg.logger, "error") )
        => LET h == HandlerCalls(r)
               x == LastMwLine(r)
           IN /\ Count(MwLines(r), IsCompletion) = 0
              /\ Count(MwLines(r), IsPanicked) = 1
              /\ x.level = "error"
              /\ x.msg = "HTTP request panicked"
              /\ x.res = [mime_type |-> sr[r].ContentType,
                          status_code |-> sr[r].StatusCode]
              /\ Len(Sends(h)) = 1 => x.res = FirstFinalized(h)
              /\ Sends(h) = <<>> => x.res = [mime_type |-> "", status_code |-> 0]

C14_Witness ==
    \E r \in Reqs :
        /\ Unwound(r)
        /\ HandlerCalls(r) = << <<"Header", "text/plain">>, <<"WriteHeader", StatusOK>> >>
        /\ LastMwLine(r).msg = "HTTP request panicked"
        /\ LastMwLine(r).level = "error"
        /\ LastMwLine(r).res = [mime_type |-> "text/plain", status_code |-> StatusOK]

\* C15: if the handler returns normally without any Write or WriteHeader
\* call, and the filter accepts the emission and the logger enables info,
\* the terminal event is the completion event at info level, "HTTP request
\* finished", with status code 0 and the empty content type.
C15_NothingWritten ==
    \A r \in Reqs :
        ( /\ Returned(r)
          /\ Sends(HandlerCalls(r)) = <<>>
          /\ AllAccepted(r)
          /\ Check(cfg.logger, "info") )
        => /\ Count(MwLines(r), IsCompletion) = 1
           /\ Count(MwLines(r), IsPanicked) = 0
           /\ LastMwLine(r).level = "info"
           /\ LastMwLine(r).msg = "HTTP request finished"
           /\ LastMwLine(r).res = [mime_type |-> "", status_code |-> 0]

C15_Witness ==
    \E r \in Reqs :
        /\ Returned(r)
        /\ HandlerCalls(r) = << <<"Header", "application/json">> >>
        /\ Brief(MwLines(r)) = << <<"info", "HTTP request finished">> >>
        /\ LastMwLine(r).res = [mime_type |-> "", status_code |-> 0]

\* C16: once the handler has made its last WriteHeader call, setting,
\* changing or deleting Content-Type in the header map (and writing body
\* data) changes neither the recorded content type nor the recorded status:
\* they stay the Content-Type in the header map at the moment of that
\* WriteHeader call and its status code, and the completion event reports
\* exactly these.
C16_ContentTypeFrozen ==
    \A r \in Reqs :
        LET h == HandlerCalls(r)
            k == LastWriteHeaderAt(h)
        IN k # 0
           => /\ sr[r].StatusCode = h[k][2]
              /\ sr[r].ContentType = HeaderBefore(h, k)
              /\ ( /\ Returned(r)
                   /\ AllAccepted(r)
                   /\ Check(cfg.logger, Classify(h[k][2]).level) )
                 => /\ IsCompletion(LastMwLine(r))
                    /\ LastMwLine(r).res = [mime_type |-> HeaderBefore(h, k),
                                            status_code |-> h[k][2]]

C16_Witness ==
    \E r \in Reqs :
        /\ Returned(r)
        /\ HandlerCalls(r) = << <<"Header", "application/json">>,
                                <<"WriteHeader", StatusOK>>,
                                <<"Header", "text/plain">> >>
        /\ w[r].header = "text/plain"
        /\ LastMwLine(r).msg = "HTTP request finished"
        /\ LastMwLine(r).res = [mime_type |-> "application/json", status_code |-> StatusOK]

IsTerminal(x) == x.by = "mw" /\ (IsCompletion(x) \/ IsPanicked(x))

\* C17: within one request: when the handler is invoked the logger is
\* already injected into the request context and the observer is installed
\* with nothing recorded; the pre-handling event, if emitted, is the first
\* line of the request, reports status 0 and the empty content type, and is
\* there before the handler's first step; every line the handler logs
\* precedes the terminal event; and a terminal event exists only once the
\* handler has returned or unwound, as the last line of the request.
C17_Ordering ==
    \A r \in Reqs :
        LET m == ReqLines(r)
            f == FilterCalls(r)
        IN /\ pc[r] = "idle" => m = <<>> /\ ctx[r] = <<>>
           /\ pc[r] # "idle" => ctx[r] = << l[r] >>
           /\ (pc[r] = "handling" /\ ops[r] = 0)
              => /\ sr[r] = [writeHeaderCalled |-> FALSE, StatusCode |-> 0,
                             ContentType |-> ""]
                 /\ HandlerCalls(r) = <<>>
                 /\ Brief(m) = Emitted(PreEvent, f[1][3])
           /\ \A i \in 1..Len(m) :
                /\ (m[i].by = "mw" /\ IsPre(m[i]))
                   => /\ i = 1
                      /\ m[i].res = [mime_type |-> "", status_code |-> 0]
                /\ IsTerminal(m[i])
                   => /\ i = Len(m)
                      /\ pc[r] = "done"
                      /\ exit[r] # <<"none">>
                /\ m[i].by = "handler"
                   => \A j \in 1..Len(m) : IsTerminal(m[j]) => i < j

C17_Witness ==
    \E r \in Reqs :
        /\ pc[r] = "done"
        /\ Len(ReqLines(r)) = 4
        /\ ReqLines(r)[1].msg = "Received HTTP request"
        /\ ReqLines(r)[2].by = "handler"
        /\ ReqLines(r)[3].by = "handler"
        /\ IsTerminal(ReqLines(r)[4])

\* The lines the inner middleware wrote.
InnerLines == SelectSeq(log, LAMBDA x : x.r = "inner")

WrittenWith(seq, lg) ==
    \A i \in 1..Len(seq) : seq[i].logger = lg.name /\ seq[i].fields = lg.fields

\* C18: with two middleware instances nested, the inner injection overrides
\* the logger for the derived context only: FromContext inside the innermost
\* handler returns the logger the inner middleware built (and the handler's
\* lines are written with it), the outer request context still carries the
\* outer logger, the outer middleware's events are written with the outer
\* logger and the inner middleware's with the inner one.
C18_InnermostWins ==
    \A r \in Reqs :
        inner.pc \in {"handling", "returned", "unwound"} =>
            /\ \A i \in 1..Len(got) :
                 got[i].ctx = r => got[i].l = inner.l /\ ~got[i].diag
            /\ WrittenWith(SelectSeq(ReqLines(r), LAMBDA x : x.by = "handler"), inner.l)
            /\ WrittenWith(InnerLines, inner.l)
            /\ WrittenWith(MwLines(r), l[r])
            /\ ctx[r] = << l[r] >>
            /\ FromContext(ctx[r], global).l = l[r]

C18_Witness ==
    \E r \in Reqs :
        /\ pc[r] = "done"
        /\ inner.pc = "returned"
        /\ inner.l.fields # l[r].fields
        /\ inner.l.name # l[r].name
        /\ \E i \in 1..Len(got) : got[i].ctx = r /\ got[i].l = inner.l
        /\ Brief(MwLines(r)) = << <<"debug", "Received HTTP request">>,
                                  <<"warn", "HTTP request failed due to a client error">> >>
        /\ Brief(InnerLines) = Brief(MwLines(r))
        /\ Count(ReqLines(r), LAMBDA x : x.by = "handler") = 1

\* The status and content type an observer holds after the calls h of its
\* own handler: those of the last WriteHeader; without one, 200 and the
\* Content-Type at the first Write; without any send, 0 and "".
RecordedBy(h) ==
    IF LastWriteHeaderAt(h) # 0
    THEN [mime_type   |-> HeaderBefore(h, LastWriteHeaderAt(h)),
          status_code |-> h[LastWriteHeaderAt(h)][2]]
    ELSE IF FirstSendAt(h) # 0
         THEN [mime_type |-> HeaderBefore(h, FirstSendAt(h)), status_code |-> StatusOK]
         ELSE [mime_type |-> "", status_code |-> 0]

\* C19: with two requests in flight on one middleware instance, under every
\* interleaving of their steps, each request has its own observer, flag and
\* logger: what is recorded for a request, and what its terminal event
\* carries, comes from the calls of its own handler only; the logger in its
\* context, returned by FromContext in its handler and writing its lines, is
\* the one built for it; and it gets exactly one terminal event once its
\* handler has exited (the filter accepting and the logger enabling it).
C19_Isolation ==
    \A r \in ConcReqs :
        LET m == MwLines(r)
            term == SelectSeq(m, IsTerminal)
            own == RecordedBy(HandlerCalls(r))
        IN /\ sr[r].StatusCode = own.status_code
           /\ sr[r].ContentType = own.mime_type
           /\ completed[r] <=> Returned(r)
           /\ pc[r] # "idle" => l[r] = RequestLogger(r) /\ ctx[r] = << l[r] >>
           /\ \A i \in 1..Len(got) : got[i].ctx = r => got[i].l = l[r]
           /\ WrittenWith(ReqLines(r), l[r])
           /\ Len(term) <= 1
           /\ pc[r] # "done" => term = <<>>
           /\ pc[r] = "done"
              => /\ Len(term) = 1
                 /\ term[1].res = own
                 /\ Brief(term) = << TerminalEvent(r) >>

C19_Witness ==
    /\ pc["r1"] = "done" /\ pc["r2"] = "done"
    /\ Returned("r1") /\ Unwound("r2")
    /\ HandlerCalls("r1") = << <<"Header", "text/plain">>, <<"WriteHeader", 404>> >>
    /\ HandlerCalls("r2") = << <<"Header", "application/json">>, <<"WriteHeader", 500>> >>
    /\ l["r1"] # l["r2"]
    /\ Len(log) = 4
    /\ log[1].r = "r1" /\ log[2].r = "r2" /\ log[3].r = "r2" /\ log[4].r = "r1"
    /\ log[3].res = [mime_type |-> "application/json", status_code |-> 500]
    /\ log[4].res = [mime_type |-> "text/plain", status_code |-> 404]

\* C20: on every path, faults of the filter and of the request formatter
\* during an emission included, a request gets at most one terminal event,
\* never a completion event and a "panicked" event together; the flag is
\* set once the handler has returned, so a fault while the completion event
\* is emitted is followed by no "panicked" event (the request then has no
\* terminal event at all and ServeHTTP ends in that fault).
C20_AtMostOneTerminal ==
    \A r \in Reqs :
        LET m == MwLines(r)
        IN /\ Count(m, IsCompletion) + Count(m, IsPanicked) <= 1
           /\ exit[r] = <<"return">>
              => /\ completed[r]
                 /\ Count(m, IsPanicked) = 0
                 /\ outcome[r] # <<"return">>
                    => /\ outcome[r] \in {<<"panic", "filter">>, <<"panic", "formatter">>}
                       /\ Count(m, IsCompletion) = 0
           /\ Count(m, IsPanicked) = 1 => ~completed[r]

C20_Witness ==
    \E r \in Reqs :
        /\ pc[r] = "done"
        /\ exit[r] = <<"return">>
        /\ outcome[r] = <<"panic", "formatter">>
        /\ sr[r].StatusCode = 500
        /\ completed[r]
        /\ Brief(MwLines(r)) = << <<"debug", "Received HTTP request">> >>

\* The calls logRequest made for request r on the filter, on the logger's
\* level check and on the request formatter, in call order.
EmissionCalls(r) ==
    SelectSeq(calls[r], LAMBDA c : c[1] \in {"filter", "check", "fields"})

FieldsCalls(r) == SelectSeq(calls[r], LAMBDA c : c[1] = "fields")

\* C21: for each candidate emission the filter is consulted first; the
\* logger's level check follows exactly when the filter returned true;
\* GetRequestFields is called, after both, exactly when the filter returned
\* true and the logger enables the level. So the request formatter is
\* invoked once for each emitted middleware line, in the same order and for
\* the same level, and never for a suppressed emission.
C21_FormatterPerLine ==
    \A r \in Reqs :
        LET e == EmissionCalls(r)
            f == FieldsCalls(r)
            m == MwLines(r)
        IN /\ \A i \in 1..Len(e) :
                /\ e[i][1] = "filter"
                   => IF e[i][3]
                      THEN i < Len(e) /\ e[i + 1][1] = "check" /\ e[i + 1][2] = e[i][2]
                      ELSE i = Len(e) \/ e[i + 1][1] = "filter"
                /\ e[i][1] = "check"
                   => /\ i > 1 /\ e[i - 1] = <<"filter", e[i][2], TRUE>>
                      /\ e[i][3] = Check(l[r], e[i][2])
                      /\ IF e[i][3]
                         THEN i < Len(e) /\ e[i + 1] = <<"fields", e[i][2]>>
                         ELSE i = Len(e) \/ e[i + 1][1] = "filter"
                /\ e[i][1] = "fields"
                   => i > 2 /\ e[i - 1] = <<"check", e[i][2], TRUE>>
           /\ Len(f) = Len(m)
           /\ \A i \in 1..Len(f) : f[i][2] = m[i].level

C21_Witness ==
    \E r \in Reqs :
        /\ pc[r] = "done"
        /\ cfg.requestFormatter = "noop"
        /\ cfg.perRequestFilterFn = "custom"
        /\ l[r].level = "info"
        /\ EmissionCalls(r) = << <<"filter", "debug", TRUE>>,
                                 <<"check", "debug", FALSE>>,
                                 <<"filter", "warn", TRUE>>,
                                 <<"check", "warn", TRUE>>,
                                 <<"fields", "warn">> >>
        /\ Brief(MwLines(r)) =
             << <<"warn", "HTTP request failed due to a client error">> >>

\* The state of the observer of request r between two calls of the handler.
C22_ObserverState ==
    \A r \in Reqs :
        /\ pc[r] = "idle" => ~sr[r].writeHeaderCalled
        /\ sr[r].writeHeaderCalled <=> Sends(HandlerCalls(r)) # <<>>
        /\ ~sr[r].writeHeaderCalled
           => sr[r].StatusCode = 0 /\ sr[r].ContentType = ""
        /\ \A i \in 1..Len(w[r].calls) :
             w[r].calls[i][1] = "Write"
             => \E j \in 1..(i - 1) : w[r].calls[j][1] = "WriteHeader"

C22_FlagStep ==
    \A r \in Reqs : sr[r].writeHeaderCalled => sr'[r].writeHeaderCalled

\* C22: over every sequence of Header / Write / WriteHeader calls on the
\* observer: its "header already sent" flag is false at first, is set by the
\* first Write or WriteHeader and never returns to false; while it is false
\* the recorded status is 0 and the recorded content type is empty; and the
\* underlying writer receives no Write before it has received a WriteHeader.
C22_ObserverInvariant == [][C22_FlagStep]_vars /\ []C22_ObserverState

C22_Witness ==
    \E r \in Reqs :
        /\ HandlerCalls(r) = << <<"Header", "application/json">>,
                                <<"Write", "a">>,
                                <<"Header", "text/plain">> >>
        /\ w[r].calls = << <<"Header", "application/json">>,
                           <<"WriteHeader", StatusOK>>,
                           <<"Write", "a">>,
                           <<"Header", "text/plain">> >>
        /\ sr[r] = [writeHeaderCalled |-> TRUE, StatusCode |-> StatusOK,
                    ContentType |-> "application/json"]

====
